---- MODULE Spec2Model ----
(***************************************************************************)
(* Model of extract-test-file.py: the extractor (extract_unicode_chars),   *)
(* the document generator (create_test_file) and the batch tester          *)
(* (process_unicode_chars_individually).                                   *)
(*                                                                         *)
(* Text is a sequence of one-character strings; the keyword                *)
(* \DeclareUnicodeCharacter is one token of the text.  A resolved          *)
(* character is a Python str, written as the sequence of its code points;  *)
(* an entry is the Python tuple (hex_code, char), <<hex_code, char>>.      *)
(***************************************************************************)
EXTENDS Integers, Sequences, FiniteSets, TLC

(* ----------------------------- bounds ---------------------------------- *)

\* Largest number of lines of the declaration file.
MaxLines == 3

(* ------------------------- program constants --------------------------- *)

\* The {4} of the pattern: the number of hex digits in the first group.
HexLen == 4

\* Base of int(match, 16).
HexBase == 16

\* Largest argument chr() accepts (0x10FFFF); above it chr raises ValueError.
MaxCodePoint == 1114111

\* Code points the generator treats specially: "&" and "%", and the
\* backslash it puts before "%".
Ampersand == 38
Percent == 37
Backslash == 92

\* The surrogate range D800..DFFF, which the utf-8 codec of the output file
\* refuses to encode.
SurrogateLo == 55296
SurrogateHi == 57343

KW == "\\DeclareUnicodeCharacter"
NL == "\n"

sty_file == <<"DeclareUnicodeCharacter.sty">>
output_dir == <<"test_results">>
final_output == <<"successful-chars.tex">>

\* f"{output_dir}/test-char-{char_tuple[0]}.tex"
output_file(hex_code) == output_dir \o <<"/test-char-">> \o hex_code \o <<".tex">>

(* ------------------------------ extractor ------------------------------ *)

\* The character class [0-9A-F] of the pattern.
UpperHex == {"0", "1", "2", "3", "4", "5", "6", "7", "8", "9",
             "A", "B", "C", "D", "E", "F"}

\* The value int(_, 16) gives one digit (it accepts both cases).
DigitValue(c) ==
    CASE c = "0" -> 0  [] c = "1" -> 1  [] c = "2" -> 2  [] c = "3" -> 3
      [] c = "4" -> 4  [] c = "5" -> 5  [] c = "6" -> 6  [] c = "7" -> 7
      [] c = "8" -> 8  [] c = "9" -> 9
      [] c \in {"A", "a"} -> 10  [] c \in {"B", "b"} -> 11
      [] c \in {"C", "c"} -> 12  [] c \in {"D", "d"} -> 13
      [] c \in {"E", "e"} -> 14  [] c \in {"F", "f"} -> 15

RECURSIVE ParseDecimal(_)
\* int(s) read in base 10: the digits A..F have no place in it and count 0.
ParseDecimal(s) ==
    IF s = <<>> THEN 0
    ELSE 10 * ParseDecimal(SubSeq(s, 1, Len(s) - 1))
         + (IF DigitValue(s[Len(s)]) < 10 THEN DigitValue(s[Len(s)]) ELSE 0)

RECURSIVE ParseHex(_)
\* int(match, 16)
ParseHex(s) ==
    IF s = <<>> THEN 0
    ELSE HexBase * ParseHex(SubSeq(s, 1, Len(s) - 1)) + DigitValue(s[Len(s)])

\* chr(n) raises ValueError exactly when n is outside 0..0x10FFFF.
ChrRaises(n) == n < 0 \/ n > MaxCodePoint

\* chr(n), where it does not raise: the str of the one code point n.
Chr(n) == <<n>>

RECURSIVE FirstCloseOrNewline(_, _)
\* The first position >= p of text t holding "}" or a newline, 0 if none:
\* where the non-greedy .*? followed by \} stops (. matches no newline).
FirstCloseOrNewline(t, p) ==
    IF p > Len(t) THEN 0
    ELSE IF t[p] \in {"}", NL} THEN p
    ELSE FirstCloseOrNewline(t, p + 1)

\* The position where a match of the pattern starting at p ends, 0 if the
\* pattern does not match at p:
\*   \\DeclareUnicodeCharacter\{([0-9A-F]{4})\}\{.*?\}
MatchEnd(t, p) ==
    IF /\ p + HexLen + 3 <= Len(t)
       /\ t[p] = KW
       /\ t[p + 1] = "{"
       /\ \A k \in 1..HexLen : t[p + 1 + k] \in UpperHex
       /\ t[p + HexLen + 2] = "}"
       /\ t[p + HexLen + 3] = "{"
    THEN LET q == FirstCloseOrNewline(t, p + HexLen + 4)
         IN  IF q # 0 /\ t[q] = "}" THEN q ELSE 0
    ELSE 0

RECURSIVE FindAllFrom(_, _)
\* re.findall from position p on: the first groups of the non-overlapping
\* matches, leftmost first.
FindAllFrom(t, p) ==
    IF p > Len(t) THEN <<>>
    ELSE LET e == MatchEnd(t, p)
         IN  IF e = 0 THEN FindAllFrom(t, p + 1)
             ELSE <<SubSeq(t, p + 2, p + 1 + HexLen)>> \o FindAllFrom(t, e + 1)

\* re.findall(pattern, content)
FindAll(t) == FindAllFrom(t, 1)

RECURSIVE ConvertMatches(_)
\* The loop over the matches: [chars, warnings] after it.
ConvertMatches(matches) ==
    IF matches = <<>> THEN [chars |-> <<>>, warnings |-> <<>>]
    ELSE LET match == Head(matches)
             rest == ConvertMatches(Tail(matches))
         IN  IF ChrRaises(ParseHex(match))
             THEN [chars |-> rest.chars,
                   warnings |-> <<[msg |-> "Warning", hex |-> match,
                                   char |-> <<>>, n |-> 0]>>
                                \o rest.warnings]
             ELSE [chars |-> <<<<match, Chr(ParseHex(match))>>>> \o rest.chars,
                   warnings |-> rest.warnings]

\* extract_unicode_chars on a file whose text is content.
extract_unicode_chars(content) == ConvertMatches(FindAll(content))

(* -------------------------- document generator ------------------------- *)

\* The utf-8 codec of the output file raises UnicodeEncodeError on a str
\* holding a surrogate.
Unencodable(char) ==
    \E k \in 1..Len(char) : char[k] >= SurrogateLo /\ char[k] <= SurrogateHi

RECURSIVE WriteRows(_)
\* The loop writing the table rows: [rows, raised]. A row is
\* <<hex_code, character field>>, standing for "U+<hex_code> & <field> \\".
\* An unencodable character makes file.write raise; the rows before it stay.
WriteRows(chars) ==
    IF chars = <<>> THEN [rows |-> <<>>, raised |-> FALSE]
    ELSE LET hex_code == Head(chars)[1]
             char == Head(chars)[2]
             rest == WriteRows(Tail(chars))
         IN  IF char = <<Ampersand>> THEN rest
             ELSE IF Unencodable(char) THEN [rows |-> <<>>, raised |-> TRUE]
             ELSE [rows |-> <<<<hex_code,
                                IF char = <<Percent>> THEN <<Backslash, Percent>>
                                                      ELSE char>>>> \o rest.rows,
                   raised |-> rest.raised]

\* The number the summary line states, counted over the rows instead.
SummaryCountRows(chars) == Len(WriteRows(chars).rows)

\* The number the summary line states: len(chars).
SummaryCount(chars) == Len(chars)

\* create_test_file(chars, _): the document left in the file and whether the
\* call raised. A document is its summary count, its table rows and whether
\* its closing lines were written.
create_test_file(chars) ==
    LET w == WriteRows(chars)
    IN  [doc |-> [count |-> SummaryCount(chars),
                  rows |-> w.rows,
                  closed |-> ~w.raised],
         raised |-> w.raised]

(* --------------------------- declaration file -------------------------- *)

\* The first groups the declaration lines of the file are drawn from: three
\* plain characters (A, & and %), a surrogate, a lowercase digit, and groups
\* of three and of five digits.
Groups == {<<"0", "0", "4", "1">>, <<"0", "0", "2", "6">>, <<"0", "0", "2", "5">>,
           <<"D", "8", "0", "0">>, <<"0", "0", "e", "9">>,
           <<"0", "4", "1">>, <<"0", "0", "0", "4", "1">>}

\* A line \DeclareUnicodeCharacter{g}{x}
DeclLine(g) == <<KW, "{">> \o g \o <<"}", "{", "x", "}", NL>>

\* A line whose second group is not closed before the end of the line.
OpenLine(g) == <<KW, "{">> \o g \o <<"}", "{", "x", NL>>

Lines == {DeclLine(g) : g \in Groups} \cup {OpenLine(<<"0", "0", "4", "1">>)}

StyFiles == UNION {[1..n -> Lines] : n \in 0..MaxLines}

RECURSIVE Flatten(_)
Flatten(ls) == IF ls = <<>> THEN <<>> ELSE Head(ls) \o Flatten(Tail(ls))

\* Exit statuses os.system reports: 0, exit code 1 (256) and the shell's
\* "command not found" (127, reported as 32512).
ExitStatuses == {0, 256, 32512}

Faults == {"none", "makedirs", "read", "write"}

(* ------------------------------ batch tester --------------------------- *)

VARIABLES
    sty,              \* the lines of DeclareUnicodeCharacter.sty
    fault,            \* which filesystem operations fail in this run
    dirs,             \* the directories that exist
    files,            \* the documents on disk, by path
    pc,               \* where process_unicode_chars_individually stands
    chars,            \* the extracted entries
    i,                \* the loop's position in chars (from 1)
    successful_chars,
    running,          \* the entries whose compiler invocation is in progress
    out,              \* the lines printed
    log,              \* the filesystem and process calls made, in order; a
                      \* call that raised OSError is logged as <op>_failed
    error,            \* the uncaught exception that ended the run, if any
    ret               \* the value returned

vars == <<sty, fault, dirs, files, pc, chars, i, successful_chars, running,
          out, log, error, ret>>

\* A document a previous run left at the consolidated path.
StaleDoc == [count |-> 1, rows |-> <<<<<<"0", "0", "4", "2">>, <<66>>>>>>, closed |-> TRUE]

NoError == [exc |-> "", filename |-> <<>>]

Event(op, idx, path, entries, status) ==
    [op |-> op, i |-> idx, path |-> path, entries |-> entries, status |-> status]

Init ==
    /\ sty \in StyFiles
    /\ fault \in Faults
    /\ \E stale \in BOOLEAN :
        /\ dirs = IF stale THEN {output_dir} ELSE {}
        /\ files = IF stale THEN [p \in {final_output} |-> StaleDoc]
                            ELSE [p \in {} |-> StaleDoc]
    /\ pc = "makedirs"
    /\ chars = <<>>
    /\ i = 1
    /\ successful_chars = <<>>
    /\ running = {}
    /\ out = <<>>
    /\ log = <<>>
    /\ error = NoError
    /\ ret = <<>>

\* The run ends with an uncaught exception; an OSError names its file.
Raise(exc, filename) ==
    /\ pc' = "crashed"
    /\ error' = [exc |-> exc, filename |-> filename]

\* os.makedirs(output_dir, exist_ok=True)
Makedirs ==
    /\ pc = "makedirs"
    /\ (fault # "makedirs" \/ output_dir \in dirs)
    /\ dirs' = dirs \cup {output_dir}
    /\ log' = Append(log, Event("makedirs", 0, output_dir, <<>>, 0))
    /\ pc' = "extract"
    /\ UNCHANGED <<sty, fault, files, chars, i, successful_chars, running, out,
                   error, ret>>

\* os.makedirs raises: the directory cannot be created.
MakedirsFails ==
    /\ pc = "makedirs"
    /\ fault = "makedirs"
    /\ output_dir \notin dirs
    /\ Raise("OSError", output_dir)
    /\ log' = Append(log, Event("makedirs_failed", 0, output_dir, <<>>, 0))
    /\ UNCHANGED <<sty, fault, dirs, files, chars, i, successful_chars, running,
                   out, ret>>

\* chars = extract_unicode_chars(sty_file); successful_chars = []
Extract ==
    /\ pc = "extract"
    /\ fault # "read"
    /\ LET r == extract_unicode_chars(Flatten(sty))
       IN  /\ chars' = r.chars
           /\ out' = out \o r.warnings
    /\ successful_chars' = <<>>
    /\ i' = 1
    /\ log' = Append(log, Event("read", 0, sty_file, <<>>, 0))
    /\ pc' = "loop"
    /\ UNCHANGED <<sty, fault, dirs, files, running, error, ret>>

\* open(filename) raises: the declaration file cannot be read.
ExtractFails ==
    /\ pc = "extract"
    /\ fault = "read"
    /\ Raise("OSError", sty_file)
    /\ log' = Append(log, Event("read_failed", 0, sty_file, <<>>, 0))
    /\ UNCHANGED <<sty, fault, dirs, files, chars, i, successful_chars, running,
                   out, ret>>

\* create_test_file([char_tuple], output_file) of the loop body.
CreateCharFile ==
    /\ pc = "loop"
    /\ i <= Len(chars)
    /\ LET path == output_file(chars[i][1])
           w == create_test_file(<<chars[i]>>)
       IN  /\ files' = (path :> w.doc) @@ files
           /\ log' = Append(log, Event("write", i, path, <<chars[i]>>, 0))
           /\ IF w.raised
              THEN Raise("UnicodeEncodeError", <<>>)
              ELSE pc' = "system" /\ error' = error
    /\ UNCHANGED <<sty, fault, dirs, chars, i, successful_chars, running, out, ret>>

\* The failed open is swallowed and the loop body goes on to the compiler.
CreateCharFileFailsSwallowed ==
    /\ pc = "loop"
    /\ i <= Len(chars)
    /\ fault = "write"
    /\ log' = Append(log, Event("write_failed", i, output_file(chars[i][1]),
                                <<chars[i]>>, 0))
    /\ pc' = "system"
    /\ UNCHANGED <<sty, fault, dirs, files, chars, i, successful_chars, running,
                   out, error, ret>>

\* open(output_filename, 'w') of the loop body raises.
CreateCharFileFails ==
    /\ pc = "loop"
    /\ i <= Len(chars)
    /\ fault = "write"
    /\ Raise("OSError", output_file(chars[i][1]))
    /\ log' = Append(log, Event("write_failed", i, output_file(chars[i][1]),
                                <<chars[i]>>, 0))
    /\ UNCHANGED <<sty, fault, dirs, files, chars, i, successful_chars, running,
                   out, ret>>

\* The compiler is started and the loop goes on without waiting for it.
SystemStartNoWait ==
    /\ pc = "system"
    /\ running' = running \cup {i}
    /\ log' = Append(log, Event("system", i, output_file(chars[i][1]), <<>>, 0))
    /\ i' = i + 1
    /\ pc' = "loop"
    /\ UNCHANGED <<sty, fault, dirs, files, chars, successful_chars, out,
                   error, ret>>

\* os.system(...) starts the compiler on output_file and waits for it.
SystemStart ==
    /\ pc = "system"
    /\ running' = running \cup {i}
    /\ log' = Append(log, Event("system", i, output_file(chars[i][1]), <<>>, 0))
    /\ pc' = "wait"
    /\ UNCHANGED <<sty, fault, dirs, files, chars, i, successful_chars, out,
                   error, ret>>

\* A successful entry is put in front of the list instead of at its end.
RecordPrepend(successful, char_tuple, compile_result) ==
    IF compile_result = 0 THEN <<char_tuple>> \o successful ELSE successful

\* if compile_result == 0: successful_chars.append(char_tuple)
Record(successful, char_tuple, compile_result) ==
    IF compile_result = 0 THEN Append(successful, char_tuple) ELSE successful

\* The line printed for an entry.
StatusLine(char_tuple, compile_result) ==
    [msg |-> IF compile_result = 0 THEN "compiled successfully"
                                   ELSE "failed to compile",
     hex |-> char_tuple[1], char |-> char_tuple[2], n |-> 0]

\* os.system returns compile_result; the outcome is recorded and printed.
SystemExit ==
    /\ pc = "wait"
    /\ \E compile_result \in ExitStatuses :
        /\ successful_chars' = Record(successful_chars, chars[i], compile_result)
        /\ out' = Append(out, StatusLine(chars[i], compile_result))
        /\ log' = Append(log, Event("exit", i, output_file(chars[i][1]), <<>>,
                                    compile_result))
    /\ running' = running \ {i}
    /\ i' = i + 1
    /\ pc' = "loop"
    /\ UNCHANGED <<sty, fault, dirs, files, chars, error, ret>>

\* Every extracted entry is returned, not only the successful ones.
ReturnValueAll(all_chars, successful) == all_chars

\* return successful_chars
ReturnValue(all_chars, successful) == successful

\* if successful_chars: create_test_file(successful_chars, final_output),
\* print the summary, return.
Consolidate ==
    /\ pc = "loop"
    /\ i > Len(chars)
    /\ successful_chars # <<>>
    /\ LET w == create_test_file(successful_chars)
       IN  /\ files' = (final_output :> w.doc) @@ files
           /\ log' = Append(log, Event("write", 0, final_output, successful_chars, 0))
           /\ IF w.raised
              THEN /\ Raise("UnicodeEncodeError", <<>>)
                   /\ UNCHANGED <<out, ret>>
              ELSE /\ out' = Append(out, [msg |-> "Created", hex |-> final_output,
                                          char |-> <<>>,
                                          n |-> Len(successful_chars)])
                   /\ ret' = ReturnValue(chars, successful_chars)
                   /\ pc' = "done"
                   /\ error' = error
    /\ UNCHANGED <<sty, fault, dirs, chars, i, successful_chars, running>>

\* open(final_output, 'w') raises.
ConsolidateFails ==
    /\ pc = "loop"
    /\ i > Len(chars)
    /\ successful_chars # <<>>
    /\ fault = "write"
    /\ Raise("OSError", final_output)
    /\ log' = Append(log, Event("write_failed", 0, final_output, successful_chars, 0))
    /\ UNCHANGED <<sty, fault, dirs, files, chars, i, successful_chars, running,
                   out, ret>>

\* successful_chars is empty: nothing is written, the empty list is returned.
ReturnEmpty ==
    /\ pc = "loop"
    /\ i > Len(chars)
    /\ successful_chars = <<>>
    /\ ret' = ReturnValue(chars, successful_chars)
    /\ pc' = "done"
    /\ UNCHANGED <<sty, fault, dirs, files, chars, i, successful_chars, running,
                   out, log, error>>

Next ==
    \/ Makedirs
    \/ MakedirsFails
    \/ Extract
    \/ ExtractFails
    \/ CreateCharFile
    \/ CreateCharFileFails
    \/ SystemStart
    \/ SystemExit
    \/ Consolidate
    \/ ConsolidateFails
    \/ ReturnEmpty

Spec == Init /\ [][Next]_vars

(* ------------------------- history read from log ----------------------- *)

\* The positions of log holding a call op for entry idx.
Positions(op, idx) == {p \in DOMAIN log : log[p].op = op /\ log[p].i = idx}

\* The positions of log holding a call to the generator for path.
WritesTo(path) == {p \in DOMAIN log : log[p].op = "write" /\ log[p].path = path}

\* The extractor has returned.
Extracted == \E p \in DOMAIN log : log[p].op = "read"

\* The compiler was run on entry k and reported exit status 0.
ExitedZero(k) == \E p \in Positions("exit", k) : log[p].status = 0

RECURSIVE EntriesExitedZero(_)
\* The entries 1..n whose compiler run reported exit status 0, in entry order.
EntriesExitedZero(n) ==
    IF n = 0 THEN <<>>
    ELSE IF ExitedZero(n) THEN Append(EntriesExitedZero(n - 1), chars[n])
    ELSE EntriesExitedZero(n - 1)

\* The last call made is a call to the generator.
LastIsWrite == log # <<>> /\ log[Len(log)].op = "write"
LastWrite == log[Len(log)]

\* The str char is one surrogate code point.
IsSurrogate(char) == Len(char) = 1 /\ char[1] \in 55296..57343

(* -------------------------------- claims ------------------------------- *)

\* C1: every consolidated call of the generator is passed exactly the entries
\* whose compiler run exited with status 0, in their original order with
\* duplicates kept; when the run ends and some entry succeeded, that call
\* was made and the last line printed states the number of those entries.
C1_ConsolidatedIsTheSuccessful ==
    /\ \A p \in WritesTo(final_output) :
           log[p].entries = EntriesExitedZero(Len(chars))
    /\ (pc = "done" /\ EntriesExitedZero(Len(chars)) # <<>>) =>
           /\ WritesTo(final_output) # {}
           /\ out[Len(out)] = [msg |-> "Created", hex |-> final_output,
                               char |-> <<>>,
                               n |-> Len(EntriesExitedZero(Len(chars)))]

\* Three entries, the second fails and the two others succeed, and the run
\* has ended.
C1_Witness ==
    /\ pc = "done"
    /\ Len(chars) = 3
    /\ ExitedZero(1) /\ ~ExitedZero(2) /\ ExitedZero(3)
    /\ WritesTo(final_output) # {}

\* C2: a compilation failure is local. With a healthy filesystem, whatever
\* the exit statuses, the run is never cut short; no entry gets a second
\* document or a second compiler run; at the end every entry was written
\* once, compiled once and its outcome follows from its own exit status.
C2_CompileFailureIsLocal ==
    fault = "none" =>
        /\ pc # "crashed"
        /\ \A k \in 1..Len(chars) :
               /\ Cardinality(Positions("write", k)) <= 1
               /\ Cardinality(Positions("system", k)) <= 1
        /\ pc = "done" =>
               /\ \A k \in 1..Len(chars) :
                      /\ Cardinality(Positions("write", k)) = 1
                      /\ Cardinality(Positions("system", k)) = 1
                      /\ Cardinality(Positions("exit", k)) = 1
               /\ successful_chars = EntriesExitedZero(Len(chars))

\* C3 as stated: the run returns one outcome per extracted entry, so the
\* returned sequence is as long as the entry list.
C3_ReturnsOneOutcomePerEntry ==
    pc = "done" => Len(ret) = Len(chars)

\* C3 as amended: the run returns the entries whose compiler run exited with
\* status 0, in entry order, and nothing for the failed ones.
C3_ReturnsTheSuccessful ==
    pc = "done" => ret = EntriesExitedZero(Len(chars))

\* A run that ended with some entries successful and some failed.
C3_Witness ==
    /\ pc = "done"
    /\ ret # <<>>
    /\ Len(ret) < Len(chars)

\* The declaration lines of the file whose first group is exactly four
\* uppercase hex digits, as entries: the group and the code point its digits
\* denote.
WellFormed(g) == Len(g) = 4 /\ \A k \in 1..4 : g[k] \in UpperHex
IsDecl(line) == \E g \in Groups : line = DeclLine(g) /\ WellFormed(g)
GroupOf(line) == CHOOSE g \in Groups : line = DeclLine(g)
CodePoint(g) ==
    4096 * DigitValue(g[1]) + 256 * DigitValue(g[2]) + 16 * DigitValue(g[3])
    + DigitValue(g[4])

RECURSIVE Declared(_)
Declared(ls) ==
    IF ls = <<>> THEN <<>>
    ELSE IF IsDecl(Head(ls))
         THEN <<<<GroupOf(Head(ls)), <<CodePoint(GroupOf(Head(ls)))>>>>>>
              \o Declared(Tail(ls))
         ELSE Declared(Tail(ls))

\* The entries of es that are no surrogates.
Scalars(es) == SelectSeq(es, LAMBDA e : ~IsSurrogate(e[2]))

\* C4: a declaration whose value is a surrogate (D800) is left out of the
\* extractor's result and a diagnostic naming it is printed, while the other
\* well-formed declarations are still returned.
C4_SurrogateExcluded ==
    Extracted =>
        /\ \A k \in 1..Len(chars) : ~IsSurrogate(chars[k][2])
        /\ chars = Scalars(Declared(sty))
        /\ \A k \in 1..Len(Declared(sty)) :
               IsSurrogate(Declared(sty)[k][2]) =>
                   \E n \in 1..Len(out) :
                       out[n].msg = "Warning" /\ out[n].hex = Declared(sty)[k][1]

\* C5: the extractor returns one entry per declaration line whose first
\* group is exactly four uppercase hex digits, in file order, duplicates
\* kept; the entry holds the group as matched and the code point its digits
\* denote in base 16. Lines with a lowercase digit, three or five digits, or
\* an unclosed second group give no entry; no such line gives no entry at all.
C5_ExtractsTheDeclarations ==
    Extracted => chars = Declared(sty)

\* A file of three lines: the same declaration twice around a line with a
\* lowercase digit; the extractor returned the two equal entries.
C5_Witness ==
    /\ Extracted
    /\ Len(sty) = 3
    /\ ~IsDecl(sty[2])
    /\ Len(chars) = 2
    /\ chars[1] = chars[2]

\* The rows the claim expects of a call on entries es: one per entry that is
\* no ampersand, in order, "%" with a backslash before it and every other
\* character as it is.
NotAmpersand(es) == SelectSeq(es, LAMBDA e : e[2] # <<38>>)
ExpectedRows(es) ==
    [k \in 1..Len(NotAmpersand(es)) |->
        <<NotAmpersand(es)[k][1],
          IF NotAmpersand(es)[k][2] = <<37>>
          THEN <<92, 37>>
          ELSE NotAmpersand(es)[k][2]>>]

\* C6: the rows a call of the generator writes are exactly, in input order,
\* one row per entry whose character is not the ampersand, so as many rows
\* as entries less the ampersand entries, "%" escaped and every other
\* character unescaped.
C6_RowsAreTheNonAmpersandEntries ==
    LastIsWrite =>
        /\ files[LastWrite.path].rows = ExpectedRows(LastWrite.entries)
        /\ \A k \in 1..Len(files[LastWrite.path].rows) :
               files[LastWrite.path].rows[k][2] # <<38>>

\* C7 as stated: in every document the generator writes to its end, the
\* number the summary line states is the number of table rows of the same
\* document.
C7_SummaryCountsRows ==
    (LastIsWrite /\ files[LastWrite.path].closed) =>
        files[LastWrite.path].count = Len(files[LastWrite.path].rows)

\* C7 as amended: the number the summary line states is the number of
\* entries passed to the call, ampersand entries included; in a document
\* written to its end it is the number of rows plus the number of ampersand
\* entries left out of the table.
C7_SummaryCountsEntries ==
    LastIsWrite =>
        /\ files[LastWrite.path].count = Len(LastWrite.entries)
        /\ files[LastWrite.path].closed =>
               files[LastWrite.path].count =
                   Len(files[LastWrite.path].rows)
                   + Len(LastWrite.entries) - Len(NotAmpersand(LastWrite.entries))

\* The consolidated document was just written from two entries, one of them
\* the ampersand: it states 2 and has one row.
C7_Witness ==
    /\ LastIsWrite
    /\ LastWrite.path = final_output
    /\ Len(LastWrite.entries) = 2
    /\ Len(NotAmpersand(LastWrite.entries)) = 1
    /\ files[final_output].count = 2
    /\ Len(files[final_output].rows) = 1

\* C8: when the filesystem is healthy and every compiler run reports a
\* nonzero status, the run ends normally: every entry was processed, the
\* list returned is empty, the generator was not called for the consolidated
\* path, a consolidated file of an earlier run is as it was and no
\* consolidated summary line was printed.
C8_AllFailEndsNormallyEmpty ==
    (/\ fault = "none"
     /\ pc \in {"done", "crashed"}
     /\ \A p \in DOMAIN log : log[p].op = "exit" => log[p].status # 0) =>
        /\ pc = "done"
        /\ ret = <<>>
        /\ \A k \in 1..Len(chars) : Positions("exit", k) # {}
        /\ WritesTo(final_output) = {}
        /\ final_output \in DOMAIN files => files[final_output] = StaleDoc
        /\ \A n \in 1..Len(out) : out[n].msg # "Created"

\* C9: the calls are strictly sequential. The output directory is ensured
\* before the declaration file is read; an entry's document is written, to
\* test-char-<hex>, before the compiler is started on it; the compiler run
\* of entry k has returned before the document of entry k + 1 is written; at
\* most one compiler run is in progress; the consolidated document is
\* written only after the compiler run of the last entry has returned.
C9_StrictlySequential ==
    /\ \A p \in DOMAIN log : log[p].op \in {"read", "read_failed"} =>
           \E q \in 1..(p - 1) : log[q].op = "makedirs"
    /\ \A p \in DOMAIN log : log[p].op = "system" =>
           /\ log[p].path = output_file(chars[log[p].i][1])
           /\ \E q \in 1..(p - 1) :
                  /\ log[q].op = "write"
                  /\ log[q].i = log[p].i
                  /\ log[q].path = log[p].path
                  /\ log[q].entries = <<chars[log[p].i]>>
    /\ \A p \in DOMAIN log : (log[p].op = "write" /\ log[p].i > 1) =>
           /\ \E q \in 1..(p - 1) : log[q].op = "exit" /\ log[q].i = log[p].i - 1
           /\ Len(SelectSeq(out, LAMBDA l : l.msg \in {"compiled successfully",
                                                       "failed to compile"}))
                  >= log[p].i - 1
    /\ \A p \in DOMAIN log : log[p].op = "exit" =>
           /\ p > 1
           /\ log[p - 1].op = "system"
           /\ log[p - 1].i = log[p].i
    /\ Cardinality(running) <= 1
    /\ \A p \in WritesTo(final_output) :
           /\ running = {}
           /\ \E q \in 1..(p - 1) : log[q].op = "exit" /\ log[q].i = Len(chars)

\* A run over two entries or more that has written the consolidated
\* document.
C9_Witness ==
    /\ pc = "done"
    /\ Len(chars) >= 2
    /\ WritesTo(final_output) # {}

\* C10: a filesystem failure ends the run where it happens. A failed read of
\* the declaration file comes after the output directory was created and
\* before any document is written or compiler started; after a failed write
\* of the document of entry k no compiler is started for entry k or a later
\* one and no consolidated document is written; nothing follows the failed
\* call.
C10_FilesystemFailureIsFatal ==
    /\ \A p \in DOMAIN log :
           log[p].op \in {"makedirs_failed", "read_failed", "write_failed"} =>
               /\ p = Len(log)
               /\ pc = "crashed"
               /\ ~ENABLED Next
    /\ \A p \in DOMAIN log : log[p].op = "read_failed" =>
           /\ output_dir \in dirs
           /\ \E q \in 1..(p - 1) : log[q].op = "makedirs"
           /\ \A q \in DOMAIN log : log[q].op \notin {"write", "system", "exit"}
    /\ \A p \in DOMAIN log : (log[p].op = "write_failed" /\ log[p].i >= 1) =>
           /\ \A q \in DOMAIN log :
                  log[q].op = "system" => log[q].i < log[p].i
           /\ WritesTo(final_output) = {}

\* The write of the second entry's document failed, after the first entry
\* was compiled, and the run has ended there.
C10_Witness ==
    /\ pc = "crashed"
    /\ log[Len(log)].op = "write_failed"
    /\ log[Len(log)].i = 2
    /\ Positions("exit", 1) # {}

====
